---- MODULE Spec2Model ----
(***************************************************************************)
(* Model of bond-stock-portfolio/multi_account_trader.py: the per-account *)
(* allocation loop (_submit_orders_for_account), the executor fan-out and *)
(* asyncio.gather join (fan_out_orders) and the process entry point       *)
(* (main).                                                                 *)
(*                                                                         *)
(* Money.  reference values (equity, cash) are whole dollars; a percentage *)
(* is a numerator over Scale; notionals, minimums, caps and prices are in  *)
(* units of 1/Scale dollar, so  notional = reference_value * percentage    *)
(* is exact.                                                               *)
(***************************************************************************)
EXTENDS Integers, Sequences, FiniteSets, TLC

\* ------------------------------------------------------------------ bounds
MaxAccounts == 2

Scale == 100000

\* Python's None; an Optional[X] value is None or the 1-tuple <<x>>
None == <<>>

\* -------------------------------------------------- configuration catalogue
\* OrderAllocation entries of the YAML file (item.get defaults not yet applied)
AllocAAA == [symbol |-> "AAA", percentage |-> 5000]
AllocBBB == [symbol |-> "BBB", percentage |-> 5, allocation_basis |-> "cash"]
AllocCCC == [symbol |-> "CCC", percentage |-> 5000, min_notional |-> 300 * Scale]
AllocDDD ==
    [symbol |-> "DDD", percentage |-> 4321, side |-> "sell", time_in_force |-> "gtc"]
AllocEEE == [symbol |-> "EEE", percentage |-> 5000, allocation_basis |-> "equity"]

\* account entries of the YAML file
ConfigEntries ==
    { [allocations |-> <<AllocAAA, AllocBBB>>],
      [max_notional_per_order |-> 200 * Scale, allocations |-> <<AllocCCC, AllocAAA>>],
      [max_notional_per_order |-> 0, allocation_basis |-> "cash",
       allocations |-> <<AllocDDD, AllocEEE>>] }

RECURSIVE SeqsUpTo(_, _)
SeqsUpTo(S, n) ==
    IF n = 0 THEN {<<>>}
    ELSE LET shorter == SeqsUpTo(S, n - 1)
         IN  shorter \cup {Append(s, x) : s \in {t \in shorter : Len(t) = n - 1}, x \in S}

\* what the brokerage may answer
Snapshots == {[equity |-> 10000, cash |-> 1234]}
Prices == {100 * Scale}
OrderIds == {"ord"}
AccountErrors == {"APIError"}
TradeErrors == {"APIError"}
SubmitErrors == {"APIError", "ConnectionError"}

\* ------------------------------------------------------------ pure helpers
Min(a, b) == IF a < b THEN a ELSE b

Get(rec, key, default) == IF key \in DOMAIN rec THEN rec[key] ELSE default

\* dict.get(key) with no default
GetOpt(rec, key) == IF key \in DOMAIN rec THEN <<rec[key]>> ELSE None

\* OrderAllocation(...) as built by load_config
OrderAllocation(item) ==
    [symbol |-> item.symbol,
     percentage |-> item.percentage,
     side |-> Get(item, "side", "buy"),
     time_in_force |-> Get(item, "time_in_force", "day"),
     allocation_basis |-> GetOpt(item, "allocation_basis"),
     min_notional |-> Get(item, "min_notional", 1 * Scale)]

\* AccountConfig(...) as built by load_config; the name is the entry's position
AccountConfig(entry, i) ==
    [name |-> i,
     allocation_basis |-> Get(entry, "allocation_basis", "equity"),
     max_notional_per_order |-> GetOpt(entry, "max_notional_per_order"),
     allocations |->
        [k \in 1..Len(entry.allocations) |-> OrderAllocation(entry.allocations[k])]]

load_config(raw) == [i \in 1..Len(raw) |-> AccountConfig(raw[i], i)]

normalized_basis(alloc, fallback) ==
    IF alloc.allocation_basis # None THEN alloc.allocation_basis[1] ELSE fallback

value_for_basis(account, basis) ==
    IF basis = "cash" THEN account.cash ELSE account.equity

\* `if cfg.max_notional_per_order:` -- Python truthiness: None and 0 are false
CapApplies(max_notional) == max_notional # None /\ max_notional[1] # 0

\* lines 109-113: the notional used by the minimum check and the order
ResolveNotional(cfg, alloc, account) ==
    LET basis == normalized_basis(alloc, cfg.allocation_basis)
        reference_value == value_for_basis(account, basis)
        notional == reference_value * alloc.percentage
    IN  IF CapApplies(cfg.max_notional_per_order)
        THEN Min(notional, cfg.max_notional_per_order[1])
        ELSE notional

\* round(x, 2) / "%.2f": nearest cent, ties to even
Round2(x) ==
    LET cent == Scale \div 100
        q == x \div cent
        r == x % cent
    IN  IF 2 * r < cent THEN q * cent
        ELSE IF 2 * r > cent THEN (q + 1) * cent
        ELSE IF q % 2 = 0 THEN q * cent ELSE (q + 1) * cent

\* lines 122-129
NotionalPayload(alloc, notional) ==
    [symbol |-> alloc.symbol, side |-> alloc.side, type |-> "market",
     time_in_force |-> alloc.time_in_force, notional |-> Round2(notional)]

\* a payload that takes a notional field along with its quantity
QtyPayloadWithNotional(alloc, qty) ==
    [symbol |-> alloc.symbol, side |-> alloc.side, type |-> "market",
     time_in_force |-> alloc.time_in_force, qty |-> qty, notional |-> 0]

\* lines 122-127, 141
QtyPayload(alloc, qty) ==
    [symbol |-> alloc.symbol, side |-> alloc.side, type |-> "market",
     time_in_force |-> alloc.time_in_force, qty |-> qty]

\* a quantity rounded up instead of down
QtyRoundedUp(notional, latest_price) ==
    (notional + latest_price - 1) \div latest_price

\* line 132: int(notional // latest_price)
Qty(notional, latest_price) == notional \div latest_price

\* line 153: {**payload, "dry_run": True}
DryRunEntry(payload) ==
    [k \in DOMAIN payload \cup {"dry_run"} |->
        IF k = "dry_run" THEN TRUE ELSE payload[k]]

\* ------------------------------------------------------------------- state
VARIABLES
    config,            \* account entries of the YAML file named by --config
    dry_run,           \* args.dry_run
    allow_fractional,  \* not args.disallow_fractional
    mainPc,            \* position of main()
    accounts,          \* main's `accounts`
    tasks,             \* per account: the executor call of _submit_orders_for_account
    submitCalls,       \* per account: payloads handed to rest.submit_order, in call order
    remoteCalls,       \* per account: REST(...) and the calls made on it, in call order
    finished,          \* gather: children whose done-callback has run, in that order
    outer,             \* gather's outer future, awaited by fan_out_orders
    summaries          \* main's `summaries`

vars ==
    <<config, dry_run, allow_fractional, mainPc, accounts, tasks, submitCalls,
      remoteCalls, finished, outer, summaries>>

Accts == DOMAIN tasks

\* a task as queued by loop.run_in_executor
NewTask ==
    [pc |-> "get_account", account |-> None, account_summary |-> None, i |-> 0,
     notional |-> None, payload |-> None, exc |-> None]

Init ==
    /\ config \in SeqsUpTo(ConfigEntries, MaxAccounts)
    /\ dry_run \in BOOLEAN
    /\ allow_fractional \in BOOLEAN
    /\ mainPc = "load_config"
    /\ accounts = <<>>
    /\ tasks = <<>>
    /\ submitCalls = <<>>
    /\ remoteCalls = <<>>
    /\ finished = <<>>
    /\ outer = [state |-> "pending"]
    /\ summaries = None

\* ------------------------------------------------------------------- main
\* line 219 with lines 87-88: an empty account list raises ValueError
LoadConfigEmpty ==
    /\ mainPc = "load_config"
    /\ load_config(config) = <<>>
    /\ mainPc' = "ValueError"
    /\ UNCHANGED <<config, dry_run, allow_fractional, accounts, tasks, submitCalls,
                   remoteCalls, finished, outer, summaries>>

\* a load_config without the check of lines 87-88
LoadConfigUnchecked ==
    /\ mainPc = "load_config"
    /\ accounts' = load_config(config)
    /\ mainPc' = "fan_out_orders"
    /\ UNCHANGED <<config, dry_run, allow_fractional, tasks, submitCalls,
                   remoteCalls, finished, outer, summaries>>

LoadConfig ==
    /\ mainPc = "load_config"
    /\ load_config(config) # <<>>
    /\ accounts' = load_config(config)
    /\ mainPc' = "fan_out_orders"
    /\ UNCHANGED <<config, dry_run, allow_fractional, tasks, submitCalls,
                   remoteCalls, finished, outer, summaries>>

\* lines 175-181: one executor call per account, then await gather(*tasks)
FanOut ==
    /\ mainPc = "fan_out_orders"
    /\ tasks' = [a \in 1..Len(accounts) |-> NewTask]
    /\ submitCalls' = [a \in 1..Len(accounts) |-> <<>>]
    /\ remoteCalls' = [a \in 1..Len(accounts) |-> <<>>]
    /\ mainPc' = "await_gather"
    /\ UNCHANGED <<config, dry_run, allow_fractional, accounts, finished, outer,
                   summaries>>

\* the interpreter is still running: executor threads can take steps
ProcessAlive == mainPc \notin {"ValueError", "SystemExit", "done"}

TaskEnded(a) == tasks[a].pc \in {"returned", "raised"}

\* a run that leaves without waiting for its worker threads
ExecutorAbandoned == TRUE

\* asyncio.run leaves only after loop.shutdown_default_executor() has joined
\* the executor's threads
ExecutorJoined == \A a \in Accts : TaskEnded(a)

\* ------------------------------------------- _submit_orders_for_account
Cfg(a) == accounts[a]

\* a loop that walks the allocations last to first
AllocBackwards(a) ==
    Cfg(a).allocations[Len(Cfg(a).allocations) + 1 - tasks[a].i]

\* line 108: the allocation of the current iteration
Alloc(a) == Cfg(a).allocations[tasks[a].i]

Running(a, pc) == ProcessAlive /\ a \in Accts /\ tasks[a].pc = pc

\* tasks that append to one shared account_summary
SetTaskSharingReport(a, t) ==
    /\ tasks' =
         [b \in DOMAIN tasks |->
            IF b = a THEN t
            ELSE IF tasks[b].account_summary # None /\ t.account_summary # None
                 THEN [tasks[b] EXCEPT !.account_summary = t.account_summary]
                 ELSE tasks[b]]
    /\ UNCHANGED <<config, dry_run, allow_fractional, mainPc, accounts, submitCalls,
                   remoteCalls, finished, outer, summaries>>

\* a step of account a's task that makes no call
SetTask(a, t) ==
    /\ tasks' = [tasks EXCEPT ![a] = t]
    /\ UNCHANGED <<config, dry_run, allow_fractional, mainPc, accounts, submitCalls,
                   remoteCalls, finished, outer, summaries>>

\* one entry of remoteCalls
Call(name, symbol) == [call |-> name, symbol |-> symbol]

\* the task goes on to t after making the given calls on its own client
SetTaskCalling(a, t, calls) ==
    /\ tasks' = [tasks EXCEPT ![a] = t]
    /\ remoteCalls' = [remoteCalls EXCEPT ![a] = @ \o calls]
    /\ UNCHANGED <<config, dry_run, allow_fractional, mainPc, accounts, submitCalls,
                   finished, outer, summaries>>

\* an exception leaves _submit_orders_for_account; exc keeps its type and the
\* call that raised it (the innermost frame of its traceback)
Raise(t, e) == [t EXCEPT !.pc = "raised", !.exc = <<e, t.pc>>]

\* account_summary["skipped"].append(...); continue
Skip(t, entry) ==
    [t EXCEPT !.account_summary.skipped = Append(@, entry),
              !.i = @ + 1, !.pc = "loop", !.notional = None, !.payload = None]

\* a loop that refreshes its snapshot after each recorded order: the cash
\* it sees has gone down
SubmittedRefreshing(t, entry) ==
    [t EXCEPT !.account_summary.submitted = Append(@, entry),
              !.i = @ + 1, !.pc = "loop", !.notional = None, !.payload = None,
              !.account.cash = @ - 1]

\* an append that also lands in the skipped list
SubmittedInBoth(t, entry) ==
    [t EXCEPT !.account_summary.submitted = Append(@, entry),
              !.account_summary.skipped = Append(@, entry),
              !.i = @ + 1, !.pc = "loop", !.notional = None, !.payload = None]

\* account_summary["submitted"].append(...), then the next iteration
Submitted(t, entry) ==
    [t EXCEPT !.account_summary.submitted = Append(@, entry),
              !.i = @ + 1, !.pc = "loop", !.notional = None, !.payload = None]

\* line 158: the only exception type the try block catches
IsCaught(e) == e = "APIError"

\* a loop whose dry-run test never holds
RecordsNever(dry) == FALSE

\* line 152: `if dry_run:` -- the order is recorded and not sent
RecordsOnly(dry) == dry

\* lines 102-107, get_account answers
GetAccountOk(a) ==
    /\ Running(a, "get_account")
    /\ \E s \in Snapshots :
         SetTaskCalling(a, [tasks[a] EXCEPT
            !.account = s,
            !.account_summary =
                [account |-> Cfg(a).name, submitted |-> <<>>, skipped |-> <<>>],
            !.i = 1, !.pc = "loop"],
            <<Call("REST", ""), Call("get_account", "")>>)

\* line 102, get_account raises
GetAccountFails(a) ==
    /\ Running(a, "get_account")
    /\ \E e \in AccountErrors :
         SetTaskCalling(a, Raise(tasks[a], e),
            <<Call("REST", ""), Call("get_account", "")>>)

\* line 108 exhausted, line 168
LoopReturn(a) ==
    /\ Running(a, "loop")
    /\ tasks[a].i > Len(Cfg(a).allocations)
    /\ SetTask(a, [tasks[a] EXCEPT !.pc = "returned"])

\* lines 109-121
SkipBelowMin(a) ==
    /\ Running(a, "loop")
    /\ tasks[a].i <= Len(Cfg(a).allocations)
    /\ LET notional == ResolveNotional(Cfg(a), Alloc(a), tasks[a].account)
       IN  /\ notional < Alloc(a).min_notional
           /\ SetTask(a, Skip(tasks[a],
                [symbol |-> Alloc(a).symbol,
                 reason |-> <<"notional below min", Round2(notional),
                              Alloc(a).min_notional>>]))

\* lines 142-157 for a built payload: recorded (dry run) or handed to
\* rest.submit_order, whose answer is a later step
Dispatch(a, payload) ==
    IF RecordsOnly(dry_run)
    THEN /\ tasks' = [tasks EXCEPT ![a] = Submitted(tasks[a], DryRunEntry(payload))]
         /\ UNCHANGED <<submitCalls, remoteCalls>>
    ELSE /\ tasks' = [tasks EXCEPT ![a].payload = payload, ![a].pc = "submit_order"]
         /\ submitCalls' = [submitCalls EXCEPT ![a] = Append(@, payload)]
         /\ remoteCalls' = [remoteCalls EXCEPT
                ![a] = Append(@, Call("submit_order", payload.symbol))]

\* lines 109-114, 122-129, 142-156 with allow_fractional
NotionalOrder(a) ==
    /\ Running(a, "loop")
    /\ tasks[a].i <= Len(Cfg(a).allocations)
    /\ allow_fractional
    /\ LET notional == ResolveNotional(Cfg(a), Alloc(a), tasks[a].account)
       IN  /\ ~(notional < Alloc(a).min_notional)
           /\ Dispatch(a, NotionalPayload(Alloc(a), notional))
    /\ UNCHANGED <<config, dry_run, allow_fractional, mainPc, accounts, finished,
                   outer, summaries>>

\* lines 109-114, 122-131: rest.get_latest_trade is called
CallLatestTrade(a) ==
    /\ Running(a, "loop")
    /\ tasks[a].i <= Len(Cfg(a).allocations)
    /\ ~allow_fractional
    /\ LET notional == ResolveNotional(Cfg(a), Alloc(a), tasks[a].account)
       IN  /\ ~(notional < Alloc(a).min_notional)
           /\ SetTaskCalling(a, [tasks[a] EXCEPT
                !.notional = <<notional>>, !.pc = "get_latest_trade"],
                <<Call("get_latest_trade", Alloc(a).symbol)>>)

\* line 131, get_latest_trade raises
LatestTradeFails(a) ==
    /\ Running(a, "get_latest_trade")
    /\ \E e \in TradeErrors : SetTask(a, Raise(tasks[a], e))

\* lines 131-140, the quantity is 0
SkipZeroQty(a) ==
    /\ Running(a, "get_latest_trade")
    /\ \E latest_price \in Prices :
         /\ Qty(tasks[a].notional[1], latest_price) = 0
         /\ SetTask(a, Skip(tasks[a],
              [symbol |-> Alloc(a).symbol,
               reason |-> <<"qty would be 0 with latest price", latest_price>>]))

\* lines 131-133, 141-156
QtyOrder(a) ==
    /\ Running(a, "get_latest_trade")
    /\ \E latest_price \in Prices :
         /\ Qty(tasks[a].notional[1], latest_price) # 0
         /\ Dispatch(a, QtyPayload(Alloc(a), Qty(tasks[a].notional[1], latest_price)))
    /\ UNCHANGED <<config, dry_run, allow_fractional, mainPc, accounts, finished,
                   outer, summaries>>

\* lines 156-157
SubmitOrderOk(a) ==
    /\ Running(a, "submit_order")
    /\ \E id \in OrderIds :
         SetTask(a, Submitted(tasks[a], [symbol |-> Alloc(a).symbol, id |-> id]))

\* an except branch that sends the order once more before giving up
SubmitOrderCaughtRetrying(a) ==
    /\ Running(a, "submit_order")
    /\ \E e \in SubmitErrors : IsCaught(e)
    /\ IF Len(submitCalls[a]) < 2 * tasks[a].i
       THEN /\ submitCalls' = [submitCalls EXCEPT ![a] = Append(@, tasks[a].payload)]
            /\ UNCHANGED tasks
       ELSE /\ tasks' = [tasks EXCEPT ![a] = Skip(tasks[a],
                [symbol |-> Alloc(a).symbol, reason |-> <<"str(exc)", "APIError">>])]
            /\ UNCHANGED submitCalls
    /\ UNCHANGED <<config, dry_run, allow_fractional, mainPc, accounts, remoteCalls,
                   finished, outer, summaries>>

\* lines 158-167
SubmitOrderCaught(a) ==
    /\ Running(a, "submit_order")
    /\ \E e \in SubmitErrors :
         /\ IsCaught(e)
         /\ SetTask(a, Skip(tasks[a],
              [symbol |-> Alloc(a).symbol, reason |-> <<"str(exc)", e>>]))

\* line 156, an exception that is no APIError
SubmitOrderRaises(a) ==
    /\ Running(a, "submit_order")
    /\ \E e \in SubmitErrors :
         /\ ~IsCaught(e)
         /\ SetTask(a, Raise(tasks[a], e))

\* ------------------------------------------------------- fan_out_orders
\* a gather that hands the results back in completion order
GatherResultsAsCompleted(fin) ==
    [i \in 1..Len(accounts) |-> tasks[fin[i]].account_summary]

\* gather without return_exceptions: results are read off the children in
\* argument order once the last one is done
GatherResults(fin) == [i \in 1..Len(accounts) |-> tasks[i].account_summary]

\* the event loop runs a child future's done-callback after its executor call
\* ended: the first exception seen, or else the last result, settles `outer`
FutureDone(a) ==
    /\ mainPc \in {"await_gather", "asyncio_run_exit"}
    /\ a \in Accts
    /\ TaskEnded(a)
    /\ \A k \in 1..Len(finished) : finished[k] # a
    /\ finished' = Append(finished, a)
    /\ outer' =
         IF outer.state # "pending" THEN outer
         ELSE IF tasks[a].pc = "raised"
              THEN [state |-> "exception", exception |-> tasks[a].exc[1]]
         ELSE IF Len(finished') = Len(accounts)
              THEN [state |-> "result", result |-> GatherResults(finished')]
         ELSE outer
    /\ UNCHANGED <<config, dry_run, allow_fractional, mainPc, accounts, tasks,
                   submitCalls, remoteCalls, summaries>>

\* line 181: the await ends with the list and fan_out_orders returns it
FanOutReturns ==
    /\ mainPc = "await_gather"
    /\ outer.state = "result"
    /\ mainPc' = "asyncio_run_exit"
    /\ UNCHANGED <<config, dry_run, allow_fractional, accounts, tasks, submitCalls,
                   remoteCalls, finished, outer, summaries>>

\* line 181: the await raises the child's exception out of fan_out_orders
FanOutRaises ==
    /\ mainPc = "await_gather"
    /\ outer.state = "exception"
    /\ mainPc' = "asyncio_run_exit"
    /\ UNCHANGED <<config, dry_run, allow_fractional, accounts, tasks, submitCalls,
                   remoteCalls, finished, outer, summaries>>

\* line 222: asyncio.run returns the coroutine's result
AsyncioRunReturns ==
    /\ mainPc = "asyncio_run_exit"
    /\ outer.state = "result"
    /\ ExecutorJoined
    /\ summaries' = outer.result
    /\ mainPc' = "log_summaries"
    /\ UNCHANGED <<config, dry_run, allow_fractional, accounts, tasks, submitCalls,
                   remoteCalls, finished, outer>>

\* lines 229-231: asyncio.run raises, main raises SystemExit(1)
AsyncioRunRaises ==
    /\ mainPc = "asyncio_run_exit"
    /\ outer.state = "exception"
    /\ ExecutorJoined
    /\ mainPc' = "SystemExit"
    /\ UNCHANGED <<config, dry_run, allow_fractional, accounts, tasks, submitCalls,
                   remoteCalls, finished, outer, summaries>>

\* lines 232-238
LogSummaries ==
    /\ mainPc = "log_summaries"
    /\ mainPc' = "done"
    /\ UNCHANGED <<config, dry_run, allow_fractional, accounts, tasks, submitCalls,
                   remoteCalls, finished, outer, summaries>>

Next ==
    \/ LoadConfigEmpty
    \/ LoadConfig
    \/ FanOut
    \/ \E a \in Accts : GetAccountOk(a)
    \/ \E a \in Accts : GetAccountFails(a)
    \/ \E a \in Accts : LoopReturn(a)
    \/ \E a \in Accts : SkipBelowMin(a)
    \/ \E a \in Accts : NotionalOrder(a)
    \/ \E a \in Accts : CallLatestTrade(a)
    \/ \E a \in Accts : LatestTradeFails(a)
    \/ \E a \in Accts : SkipZeroQty(a)
    \/ \E a \in Accts : QtyOrder(a)
    \/ \E a \in Accts : SubmitOrderOk(a)
    \/ \E a \in Accts : SubmitOrderCaught(a)
    \/ \E a \in Accts : SubmitOrderRaises(a)
    \/ \E a \in Accts : FutureDone(a)
    \/ FanOutReturns
    \/ FanOutRaises
    \/ AsyncioRunReturns
    \/ AsyncioRunRaises
    \/ LogSummaries

Spec == Init /\ [][Next]_vars

\* =================================================================== claims
Report(a) == tasks[a].account_summary

HasReport(a) == tasks[a].account_summary # None

Allocations(a) == accounts[a].allocations

\* fan_out_orders has handed control back to asyncio.run
FanOutLeft == mainPc \in {"asyncio_run_exit", "log_summaries", "SystemExit", "done"}

\* main is over: the summaries were logged or SystemExit(1) was raised
RunEnded == mainPc \in {"done", "SystemExit"}

RaisedIn(a, call) ==
    tasks[a].pc = "raised" /\ tasks[a].exc # None /\ tasks[a].exc[2] = call

\* the task went through every allocation and returned its report
Exhausted(a) ==
    /\ tasks[a].pc = "returned"
    /\ tasks[a].i = Len(Allocations(a)) + 1
    /\ Len(Report(a).submitted) + Len(Report(a).skipped) = Len(Allocations(a))
    /\ \A k \in 1..Len(Report(a).skipped) :
         Report(a).skipped[k].reason[1] \in
            {"notional below min", "qty would be 0 with latest price", "str(exc)"}
    /\ Len(submitCalls[a]) =
         IF dry_run THEN 0
         ELSE Len(Report(a).submitted)
              + Cardinality({k \in 1..Len(Report(a).skipped) :
                                Report(a).skipped[k].reason[1] = "str(exc)"})

\* C1 (as claimed): if the snapshot fetch of an account fails, what
\* fan_out_orders hands back is still a list with one report per configured
\* account, and every other account's report is the one its task produced.
C1_IsolationLaw ==
    (FanOutLeft /\ \E b \in Accts : RaisedIn(b, "get_account"))
        => /\ outer.state = "result"
           /\ Len(outer.result) = Len(accounts)
           /\ \A a \in Accts :
                ~RaisedIn(a, "get_account") =>
                    /\ outer.result[a] # None
                    /\ outer.result[a] = Report(a)

\* C2 (as claimed): when a run is over, whatever the remote calls answered,
\* the final reports hold, for every configured account, as many entries
\* (submitted plus skipped) as the account has allocations.
C2_Conservation ==
    RunEnded =>
        /\ summaries # None
        /\ Len(summaries) = Len(accounts)
        /\ \A a \in 1..Len(accounts) :
             Len(summaries[a].submitted) + Len(summaries[a].skipped)
                = Len(Allocations(a))

\* C3 (as claimed): once fan_out_orders has returned or raised, no account
\* task is still running.
C3_WaitForAll == FanOutLeft => \A a \in Accts : TaskEnded(a)

\* C4: when fan_out_orders returns, the i-th report of the list is the report
\* of the i-th account, whatever the order in which the tasks completed.
C4_OutputOrder ==
    (FanOutLeft /\ outer.state = "result") =>
        /\ Len(outer.result) = Len(accounts)
        /\ \A i \in 1..Len(accounts) :
             /\ outer.result[i].account = accounts[i].name
             /\ outer.result[i] = Report(i)

\* C4 witness: a returned list of several reports whose tasks completed in
\* another order than the input order
C4_Witness ==
    /\ FanOutLeft
    /\ outer.state = "result"
    /\ Len(finished) >= 2
    /\ finished[1] # 1

\* C5 (as claimed): in whole-share mode a failed price lookup leaves the
\* allocation in the skipped list with the error as its reason, and the task
\* still records every later allocation.
C5_PriceLookupSymbolFatal ==
    \A a \in Accts :
        (~allow_fractional /\ RaisedIn(a, "get_latest_trade")) =>
            /\ \E k \in 1..Len(Report(a).skipped) :
                 /\ Report(a).skipped[k].symbol = Allocations(a)[tasks[a].i].symbol
                 /\ Report(a).skipped[k].reason[1] = "str(exc)"
            /\ Len(Report(a).submitted) + Len(Report(a).skipped)
                 = Len(Allocations(a))

\* C6 (as claimed): in live mode no failure of a submit call (rejection, API
\* error, network error) leaves the account's task as an exception; every
\* failed submit is in the skipped list with the error's message, and the task
\* still records every allocation.
C6_SubmissionSymbolFatal ==
    \A a \in Accts :
        ~dry_run =>
            /\ ~RaisedIn(a, "submit_order")
            /\ (TaskEnded(a) /\ HasReport(a)
                    /\ Len(submitCalls[a]) > Len(Report(a).submitted)) =>
                 /\ Cardinality({k \in 1..Len(Report(a).skipped) :
                                    Report(a).skipped[k].reason[1] = "str(exc)"})
                      = Len(submitCalls[a]) - Len(Report(a).submitted)
                 /\ Len(Report(a).submitted) + Len(Report(a).skipped)
                      = Len(Allocations(a))

\* C7 (as claimed): the run ends with SystemExit(1) only when no account task
\* was ever created, and a failed snapshot fetch leaves a fully-skipped report.
C7_AccountFailuresNeverFailRun ==
    /\ mainPc = "SystemExit" => Accts = {}
    /\ \A a \in Accts :
         RaisedIn(a, "get_account") =>
            /\ HasReport(a)
            /\ Report(a).submitted = <<>>
            /\ Len(Report(a).skipped) = Len(Allocations(a))

\* C8: when the process ends after some account's task failed, every other
\* task has gone through all of its allocations (each one recorded and, live,
\* each non-skipped one submitted), unless it was stopped by an exception of
\* its own remote call; no task is left part-way.
C8_NoCrossTaskCancellation ==
    (~ProcessAlive /\ \E b \in Accts : tasks[b].pc = "raised") =>
        \A a \in Accts : Exhausted(a) \/ tasks[a].pc = "raised"

\* C8 witness: the run ended with SystemExit(1); the first task to complete
\* had raised, and a task that completed after it returned a full report with
\* a live order submitted
C8_Witness ==
    /\ mainPc = "SystemExit"
    /\ Len(finished) >= 2
    /\ tasks[finished[1]].pc = "raised"
    /\ \E k \in 2..Len(finished) :
         /\ Exhausted(finished[k])
         /\ Len(submitCalls[finished[k]]) > 0

\* C9: in a dry run submit_order is never called, and every allocation the
\* loop has gone through is either skipped by the minimum or zero-quantity
\* check or recorded as submitted with the dry-run marker (and no order id).
C9_DryRunNoSubmission ==
    dry_run =>
        \A a \in Accts :
            /\ submitCalls[a] = <<>>
            /\ tasks[a].pc # "submit_order"
            /\ HasReport(a) =>
                 /\ Len(Report(a).submitted) + Len(Report(a).skipped)
                      = tasks[a].i - 1
                 /\ \A k \in 1..Len(Report(a).skipped) :
                      Report(a).skipped[k].reason[1] \in
                         {"notional below min", "qty would be 0 with latest price"}
                 /\ \A k \in 1..Len(Report(a).submitted) :
                      /\ "dry_run" \in DOMAIN Report(a).submitted[k]
                      /\ Report(a).submitted[k].dry_run = TRUE
                      /\ "id" \notin DOMAIN Report(a).submitted[k]

\* C9 witness: a dry run in which a task returned with an allocation recorded
\* as submitted and another one skipped
C9_Witness ==
    /\ dry_run
    /\ \E a \in Accts :
         /\ tasks[a].pc = "returned"
         /\ Len(Report(a).submitted) >= 1
         /\ Len(Report(a).skipped) >= 1

\* C10 (as claimed): for an account whose max_notional_per_order is set (0
\* included) and an allocation with reference_value * percentage above it,
\* the notional of the minimum check and of the order is exactly the cap.
C10_CappingLaw ==
    \A a \in Accts :
        tasks[a].account # None =>
            \A k \in 1..Len(Allocations(a)) :
                LET cfg == accounts[a]
                    alloc == cfg.allocations[k]
                    raw == value_for_basis(tasks[a].account,
                              normalized_basis(alloc, cfg.allocation_basis))
                           * alloc.percentage
                IN  (cfg.max_notional_per_order # None
                        /\ raw > cfg.max_notional_per_order[1])
                    => ResolveNotional(cfg, alloc, tasks[a].account)
                         = cfg.max_notional_per_order[1]

\* allocations of account a the loop has finished with (an outcome is recorded)
Processed(a) ==
    IF HasReport(a)
    THEN 1..(Len(Report(a).submitted) + Len(Report(a).skipped))
    ELSE {}

\* symbols of the calls of one kind account a has made
CalledSymbols(a, name) ==
    {remoteCalls[a][n].symbol :
        n \in {m \in 1..Len(remoteCalls[a]) : remoteCalls[a][m].call = name}}

SkippedWith(a, symbol, why) ==
    \E n \in 1..Len(Report(a).skipped) :
        /\ Report(a).skipped[n].symbol = symbol
        /\ Report(a).skipped[n].reason[1] = why

\* C11 (as claimed): an allocation is recorded as skipped with the reason
\* 'notional {v} below min {min}' exactly when its notional after capping
\* (the lower of reference_value * percentage and the configured cap) is
\* strictly below its min_notional; it then carries the capped value and the
\* minimum in its reason and has reached neither price lookup nor submit.
C11_SkipLaw ==
    \A a \in Accts : \A k \in Processed(a) :
        LET cfg == accounts[a]
            alloc == cfg.allocations[k]
            raw == value_for_basis(tasks[a].account,
                      normalized_basis(alloc, cfg.allocation_basis))
                   * alloc.percentage
            capped == IF cfg.max_notional_per_order # None
                      THEN Min(raw, cfg.max_notional_per_order[1])
                      ELSE raw
        IN  /\ SkippedWith(a, alloc.symbol, "notional below min")
                <=> capped < alloc.min_notional
            /\ SkippedWith(a, alloc.symbol, "notional below min") =>
                /\ \E n \in 1..Len(Report(a).skipped) :
                     Report(a).skipped[n] =
                        [symbol |-> alloc.symbol,
                         reason |-> <<"notional below min", Round2(capped),
                                      alloc.min_notional>>]
                /\ alloc.symbol \notin CalledSymbols(a, "get_latest_trade")
                /\ alloc.symbol \notin CalledSymbols(a, "submit_order")

\* C12: in whole-share mode every allocation that passed the minimum check is
\* priced once; its quantity is floor(notional / price): when that is 0 the
\* allocation is skipped with the price in its reason and no order is sent,
\* otherwise the order built for it carries exactly that positive quantity.
C12_WholeShareLaw ==
    ~allow_fractional =>
        \A a \in Accts : \A k \in Processed(a) :
            LET cfg == accounts[a]
                alloc == cfg.allocations[k]
                notional == ResolveNotional(cfg, alloc, tasks[a].account)
                orders ==
                    {submitCalls[a][n] : n \in 1..Len(submitCalls[a])} \cup
                    IF dry_run
                    THEN {Report(a).submitted[n] : n \in 1..Len(Report(a).submitted)}
                    ELSE {}
            IN  ~(notional < alloc.min_notional) =>
                  /\ alloc.symbol \in CalledSymbols(a, "get_latest_trade")
                  /\ \E price \in Prices :
                       IF notional \div price = 0
                       THEN /\ \E n \in 1..Len(Report(a).skipped) :
                                 Report(a).skipped[n] =
                                    [symbol |-> alloc.symbol,
                                     reason |-> <<"qty would be 0 with latest price",
                                                  price>>]
                            /\ \A o \in orders : o.symbol # alloc.symbol
                       ELSE /\ ~SkippedWith(a, alloc.symbol,
                                            "qty would be 0 with latest price")
                            /\ \E o \in orders :
                                 /\ o.symbol = alloc.symbol
                                 /\ o.qty = notional \div price
                                 /\ o.qty > 0
                            /\ \A o \in orders :
                                 o.symbol = alloc.symbol => o.qty = notional \div price

\* C12 witness: a whole-share run in which one account has an allocation
\* skipped for a zero quantity and another ordered with a positive quantity
C12_Witness ==
    /\ ~allow_fractional
    /\ \E a \in Accts :
         /\ tasks[a].pc = "returned"
         /\ \E n \in 1..Len(Report(a).skipped) :
              Report(a).skipped[n].reason[1] = "qty would be 0 with latest price"
         /\ \/ Len(submitCalls[a]) > 0
            \/ dry_run /\ Len(Report(a).submitted) > 0

IsPrefix(s, t) == Len(s) <= Len(t) /\ \A n \in 1..Len(s) : s[n] = t[n]

Comparable(s, t) == IsPrefix(s, t) \/ IsPrefix(t, s)

C14_EmptyConfigAborts ==
    config = <<>> =>
        /\ mainPc \in {"load_config", "ValueError"}
        /\ accounts = <<>>
        /\ tasks = <<>>
        /\ remoteCalls = <<>>
        /\ submitCalls = <<>>
        /\ finished = <<>>
        /\ summaries = None

\* C14 witness: load_config has raised on an empty account list
C14_Witness == config = <<>> /\ mainPc = "ValueError"

\* position of a symbol in the account's configured allocations (0: not there)
IndexOf(a, symbol) ==
    IF \E k \in 1..Len(Allocations(a)) : Allocations(a)[k].symbol = symbol
    THEN CHOOSE k \in 1..Len(Allocations(a)) : Allocations(a)[k].symbol = symbol
    ELSE 0

\* symbols of the allocations with a recorded outcome
RecordedSymbols(a) ==
    {Report(a).submitted[n].symbol : n \in 1..Len(Report(a).submitted)} \cup
    {Report(a).skipped[n].symbol : n \in 1..Len(Report(a).skipped)}

\* C15: within an account the price lookups and submits are issued in
\* configured order, each allocation at most once per kind; a call in flight
\* is the last call made and is for the allocation the loop is at, whose
\* predecessors all have their outcome recorded and whose successors have
\* none; so no two calls of one account are in flight together.
C15_SequentialInOrder ==
    \A a \in Accts :
        LET log == remoteCalls[a]
            perAlloc == {n \in 1..Len(log) : log[n].symbol # ""}
        IN  /\ \A n \in perAlloc : IndexOf(a, log[n].symbol) > 0
            /\ \A n, m \in perAlloc :
                 n < m =>
                    /\ IndexOf(a, log[n].symbol) <= IndexOf(a, log[m].symbol)
                    /\ log[n].call = log[m].call =>
                         IndexOf(a, log[n].symbol) < IndexOf(a, log[m].symbol)
            /\ tasks[a].pc \in {"get_latest_trade", "submit_order"} =>
                 /\ log[Len(log)] = Call(tasks[a].pc, Allocations(a)[tasks[a].i].symbol)
                 /\ RecordedSymbols(a) =
                        {Allocations(a)[k].symbol : k \in 1..(tasks[a].i - 1)}
                 /\ Len(Report(a).submitted) + Len(Report(a).skipped)
                        = tasks[a].i - 1
            /\ tasks[a].pc = "submit_order" =>
                 tasks[a].payload.symbol = Allocations(a)[tasks[a].i].symbol

\* C15 witness: the second submit call of one account is in flight
C15_Witness ==
    \E a \in Accts :
        /\ tasks[a].pc = "submit_order"
        /\ Len(submitCalls[a]) = 2
        /\ tasks[a].i = 2

\* every notional or quantity account a has put into an order or a reason is
\* the one resolved from the snapshot the task holds
ResolvedFromSnapshot(a) ==
    LET notionalOf(symbol) ==
            ResolveNotional(accounts[a], Allocations(a)[IndexOf(a, symbol)],
                            tasks[a].account)
        orders ==
            {submitCalls[a][n] : n \in 1..Len(submitCalls[a])} \cup
            {e \in {Report(a).submitted[n] : n \in 1..Len(Report(a).submitted)} :
                "dry_run" \in DOMAIN e}
    IN  /\ \A o \in orders :
             IF "notional" \in DOMAIN o
             THEN o.notional = Round2(notionalOf(o.symbol))
             ELSE \E price \in Prices : o.qty = notionalOf(o.symbol) \div price
        /\ \A n \in 1..Len(Report(a).skipped) :
             LET e == Report(a).skipped[n]
             IN  /\ e.reason[1] = "notional below min" =>
                      e.reason[2] = Round2(notionalOf(e.symbol))
                 /\ e.reason[1] = "qty would be 0 with latest price" =>
                      notionalOf(e.symbol) \div e.reason[2] = 0
        /\ tasks[a].notional # None =>
             tasks[a].notional[1] = notionalOf(Allocations(a)[tasks[a].i].symbol)

\* C16: each account's snapshot is fetched exactly once, as the first call on
\* its client and before any allocation is evaluated; the task keeps that
\* snapshot unchanged to its end, and every allocation, also one after an
\* order of the same account was submitted, is resolved against it.
C16_SingleStaleSnapshot ==
    /\ [](\A a \in Accts :
            LET log == remoteCalls[a]
                fetches == {n \in 1..Len(log) : log[n].call = "get_account"}
            IN  /\ Cardinality(fetches) <= 1
                /\ log # <<>> =>
                     /\ Len(log) >= 2
                     /\ log[1] = Call("REST", "")
                     /\ log[2] = Call("get_account", "")
                /\ tasks[a].pc # "get_account" => fetches = {2}
                /\ tasks[a].i >= 1 => tasks[a].account \in Snapshots
                /\ HasReport(a) => ResolvedFromSnapshot(a))
    /\ [][\A a \in DOMAIN tasks :
            tasks[a].account # None => tasks'[a].account = tasks[a].account]_vars

\* C16 witness: an account is resolving its second allocation after a live
\* order for its first one was accepted
C16_Witness ==
    \E a \in Accts :
        /\ tasks[a].i = 2
        /\ tasks[a].pc = "submit_order"
        /\ Len(Report(a).submitted) = 1
        /\ "id" \in DOMAIN Report(a).submitted[1]

\* C17: submit_order is called at most once per configured allocation: no
\* allocation is submitted twice, an allocation whose submit failed has
\* exactly that one call behind it, and an allocation skipped by the minimum
\* or zero-quantity check was never submitted.
C17_SingleAttempt ==
    \A a \in Accts :
        LET calls == submitCalls[a]
            attempts(symbol) ==
                Cardinality({n \in 1..Len(calls) : calls[n].symbol = symbol})
        IN  /\ Len(calls) <= Len(Allocations(a))
            /\ \A k \in 1..Len(Allocations(a)) :
                 attempts(Allocations(a)[k].symbol) <= 1
            /\ HasReport(a) =>
                 \A n \in 1..Len(Report(a).skipped) :
                    LET e == Report(a).skipped[n]
                    IN  attempts(e.symbol) =
                            IF e.reason[1] = "str(exc)" THEN 1 ELSE 0

\* C17 witness: a live task returned after one submit failed with an APIError
\* and another allocation was skipped by a check
C17_Witness ==
    \E a \in Accts :
        /\ tasks[a].pc = "returned"
        /\ SkippedWith(a, Allocations(a)[1].symbol, "str(exc)")
        /\ Len(Report(a).skipped) = 2
        /\ Len(submitCalls[a]) = 1

\* every order payload account a has built: sent, recorded by a dry run, or
\* held by the task for the call in flight
BuiltPayloads(a) ==
    {submitCalls[a][n] : n \in 1..Len(submitCalls[a])}
    \cup (IF HasReport(a)
          THEN {e \in {Report(a).submitted[n] : n \in 1..Len(Report(a).submitted)} :
                  "dry_run" \in DOMAIN e}
          ELSE {})
    \cup (IF tasks[a].payload # None THEN {tasks[a].payload} ELSE {})

\* C18: every order payload carries exactly one of notional and qty: the
\* notional when allow_fractional is true, a positive integer qty when it is
\* false; get_latest_trade is called only when allow_fractional is false.
C18_PayloadExclusivity ==
    \A a \in Accts :
        /\ \A p \in BuiltPayloads(a) :
             /\ ("notional" \in DOMAIN p) # ("qty" \in DOMAIN p)
             /\ ("notional" \in DOMAIN p) <=> allow_fractional
             /\ "qty" \in DOMAIN p => p.qty \in Nat \ {0}
        /\ CalledSymbols(a, "get_latest_trade") # {} => ~allow_fractional

\* C18 witness: a whole-share order, priced by a lookup, is being submitted
C18_Witness ==
    \E a \in Accts :
        /\ tasks[a].pc = "submit_order"
        /\ "qty" \in DOMAIN tasks[a].payload
        /\ Allocations(a)[tasks[a].i].symbol \in CalledSymbols(a, "get_latest_trade")

SymbolsOf(entries) == {entries[n].symbol : n \in 1..Len(entries)}

\* the entries follow the configured order of their allocations, none twice
InConfiguredOrder(a, entries) ==
    \A n, m \in 1..Len(entries) :
        n < m => IndexOf(a, entries[n].symbol) < IndexOf(a, entries[m].symbol)

\* C19: at every point of an account's loop the submitted and skipped lists
\* together hold exactly one entry for each allocation before the current one
\* and none for the others; no allocation is in both lists, and each list is
\* in configured order.
C19_ReportPartition ==
    \A a \in Accts :
        HasReport(a) =>
            LET sub == Report(a).submitted
                skp == Report(a).skipped
            IN  /\ Len(sub) + Len(skp) = tasks[a].i - 1
                /\ SymbolsOf(sub) \cup SymbolsOf(skp) =
                      {Allocations(a)[k].symbol : k \in 1..(tasks[a].i - 1)}
                /\ SymbolsOf(sub) \cap SymbolsOf(skp) = {}
                /\ InConfiguredOrder(a, sub)
                /\ InConfiguredOrder(a, skp)
                /\ tasks[a].pc = "returned" => tasks[a].i = Len(Allocations(a)) + 1

\* C19 witness: a loop is inside its second iteration, a remote call in
\* flight, with the outcome of the first allocation recorded
C19_Witness ==
    \E a \in Accts :
        /\ tasks[a].pc \in {"get_latest_trade", "submit_order"}
        /\ tasks[a].i = 2
        /\ Len(Report(a).submitted) + Len(Report(a).skipped) = 1

\* C20: a step that changes one account's task, or adds to its calls, leaves
\* the task (report, snapshot, position) and the calls of every other account
\* as they were; each report is written by its own account's task only and
\* carries that account's name.
C20_TaskIsolation ==
    /\ [](\A a \in Accts : HasReport(a) => Report(a).account = accounts[a].name)
    /\ [][\A a, b \in DOMAIN tasks :
            (a # b /\ (\/ tasks'[a] # tasks[a]
                       \/ remoteCalls'[a] # remoteCalls[a]
                       \/ submitCalls'[a] # submitCalls[a]))
            => /\ tasks'[b] = tasks[b]
               /\ remoteCalls'[b] = remoteCalls[b]
               /\ submitCalls'[b] = submitCalls[b]]_vars

\* C20 witness: two accounts are both inside their loops, each with an
\* outcome already recorded
C20_Witness ==
    \E a, b \in Accts :
        /\ a # b
        /\ tasks[a].pc = "submit_order"
        /\ tasks[b].pc = "loop"
        /\ tasks[a].i = 2
        /\ tasks[b].i = 2

====
